---- MODULE Spec2Model ----
(***************************************************************************)
(* Model of nmtpytorch/translator.py: the Translator class that loads an   *)
(* ensemble of checkpoints, checks their compatibility, resolves the       *)
(* splits to translate, drives beam search per split, filters hypotheses   *)
(* and dumps them to files with a derived name.                            *)
(*                                                                         *)
(* Python strings are sequences of one-character strings, so that          *)
(* str.split, str.format and concatenation are computed, not assumed.      *)
(***************************************************************************)
EXTENDS Integers, Sequences, FiniteSets, TLC

VARIABLES
    kwargs,      \* the keyword arguments given to the constructor
    splits,      \* self.splits: the string given, then the resolved list
    instances,   \* self.instances
    filter,      \* self.filter
    pc,          \* position in __init__ / __call__ / translate
    m,           \* index into self.models of the checkpoint loaded next
    idx,         \* index into self.splits of the split in progress
    hyps,        \* hyps, local of translate: what beam_search returned
    call_hyps,   \* hyps, local of __call__: what translate returned
    up_time,     \* up_time, local of translate
    sent_sec,    \* the sent/sec value formatted into the log line
    error,       \* the exception that ended the run, or "none"
    files,       \* the file system: output path -> lines written
    events,      \* history of the calls made to collaborators
    args,        \* arguments of a direct call of a method
    result       \* what the direct call returned

vars == <<kwargs, splits, instances, filter, pc, m, idx, hyps, call_hyps, up_time,
          sent_sec, error, files, events, args, result>>

----------------------------------------------------------------------------
(* Bounds of the model *)

MaxModels == 2      \* checkpoints given in kwargs.models
MaxVocab == 2       \* n_trg_vocab ranges over 1..MaxVocab
MaxUpTime == 2      \* elapsed seconds measured around beam_search
MaxBeam == 11       \* beam_size ranges over 1..MaxBeam
MaxStrLen == 3      \* length of the strings given to direct calls

----------------------------------------------------------------------------
(* Python strings and their methods *)

RECURSIVE SeqsUpTo(_, _)
SeqsUpTo(S, n) ==
    IF n = 0 THEN {<<>>}
    ELSE LET shorter == SeqsUpTo(S, n - 1)
         IN  shorter \cup {Append(s, x) : s \in {t \in shorter : Len(t) = n - 1}, x \in S}

Range(s) == {s[i] : i \in DOMAIN s}

\* index of the first occurrence of character c in s, 0 when absent
Find(s, c) ==
    IF c \in Range(s) THEN CHOOSE i \in DOMAIN s : s[i] = c /\ \A j \in 1..(i - 1) : s[j] # c
    ELSE 0

StrSplitOnce(s, c) ==
    LET i == Find(s, c)
    IN  IF i = 0 THEN <<s>>
        ELSE <<SubSeq(s, 1, i - 1), SubSeq(s, i + 1, Len(s))>>

\* s.split(c)
RECURSIVE StrSplit(_, _)
StrSplit(s, c) ==
    LET i == Find(s, c)
    IN  IF i = 0 THEN <<s>>
        ELSE <<SubSeq(s, 1, i - 1)>> \o StrSplit(SubSeq(s, i + 1, Len(s)), c)

\* s.split(c, 1)
StrSplit1(s, c) ==
    LET i == Find(s, c)
    IN  IF i = 0 THEN <<s>>
        ELSE <<SubSeq(s, 1, i - 1), SubSeq(s, i + 1, Len(s))>>

DigitChars == <<"0", "1", "2", "3", "4", "5", "6", "7", "8", "9">>

\* "{}".format(n) for an int n >= 0
RECURSIVE FormatInt(_)
FormatInt(n) ==
    IF n < 10 THEN <<DigitChars[n + 1]>>
    ELSE FormatInt(n \div 10) \o <<DigitChars[(n % 10) + 1]>>

\* pathlib.Path(s) on POSIX: the root and the components, "" and "." dropped
RECURSIVE DropEmptyAndDot(_)
DropEmptyAndDot(parts) ==
    IF parts = <<>> THEN <<>>
    ELSE LET rest == DropEmptyAndDot(Tail(parts))
         IN  IF Head(parts) = <<>> \/ Head(parts) = <<".">> THEN rest
             ELSE <<Head(parts)>> \o rest

LeadingSlashes(s) ==
    IF \A i \in DOMAIN s : s[i] = "/" THEN Len(s)
    ELSE (CHOOSE i \in DOMAIN s : s[i] # "/" /\ \A j \in 1..(i - 1) : s[j] = "/") - 1

Path(s) ==
    [root  |-> IF LeadingSlashes(s) = 0 THEN <<>>
               ELSE IF LeadingSlashes(s) = 2 THEN <<"/", "/">>
               ELSE <<"/">>,
     parts |-> DropEmptyAndDot(StrSplit(s, "/"))]

\* a dict as a function; d[k] = v
DictSet(d, k, v) == [x \in DOMAIN d \cup {k} |-> IF x = k THEN v ELSE d[x]]

EmptyDict == [x \in {} |-> <<>>]

----------------------------------------------------------------------------
(* Translator.sanity_check, lines 82-88 *)

sanity_check_no_filter_assert(insts) ==
    LET n_trg_vocab == {insts[i].n_trg_vocab : i \in DOMAIN insts}
    IN  IF ~(Cardinality(n_trg_vocab) = 1)
        THEN "AssertionError: target vocabularies differ."
        ELSE "ok"

sanity_check(insts) ==
    LET eval_filters == {insts[i].opts.train.eval_filters : i \in DOMAIN insts}
        n_trg_vocab  == {insts[i].n_trg_vocab : i \in DOMAIN insts}
    IN  IF ~(Cardinality(eval_filters) < 2)
        THEN "AssertionError: eval_filters differ between instances."
        ELSE IF ~(Cardinality(n_trg_vocab) = 1)
        THEN "AssertionError: target vocabularies differ."
        ELSE "ok"

----------------------------------------------------------------------------
(* Output path of Translator.dump, lines 129-138 *)

NewSplit == <<"n", "e", "w">>

DumpPathFlagsSwapped(output, split, beam_size, avoid_double, avoid_unk) ==
    LET s0 == <<".", "b", "e", "a", "m">> \o FormatInt(beam_size)
        s1 == IF avoid_unk THEN s0 \o <<".", "n", "o", "u", "n", "k">> ELSE s0
        s2 == IF avoid_double THEN s1 \o <<".", "n", "o", "d", "b", "l">> ELSE s1
    IN  IF split = NewSplit THEN output \o s2
        ELSE output \o <<".">> \o split \o s2

DumpPathUnkForgotten(output, split, beam_size, avoid_double, avoid_unk) ==
    LET s0 == <<".", "b", "e", "a", "m">> \o FormatInt(beam_size)
        s1 == IF avoid_double THEN s0 \o <<".", "n", "o", "d", "b", "l">> ELSE s0
    IN  IF split = NewSplit THEN output \o s1
        ELSE output \o <<".">> \o split \o s1

DumpPath(output, split, beam_size, avoid_double, avoid_unk) ==
    LET s0 == <<".", "b", "e", "a", "m">> \o FormatInt(beam_size)
        s1 == IF avoid_double THEN s0 \o <<".", "n", "o", "d", "b", "l">> ELSE s0
        s2 == IF avoid_unk THEN s1 \o <<".", "n", "o", "u", "n", "k">> ELSE s1
    IN  IF split = NewSplit THEN output \o s2
        ELSE output \o <<".">> \o split \o s2

\* the file content written by lines 140-142: each hypothesis, then "\n"
DumpLines(hs) == [i \in DOMAIN hs |-> <<hs[i], "\n">>]

----------------------------------------------------------------------------
(* Model instances, lines 37-51 *)

KnownModelTypes == {"NMT"}

\* Options.from_dict(opts): the train and data sections of the checkpoint
OptionsFromDict(opts) == [train |-> opts.train, data |-> opts.data]

\* can getattr(models, model_type) and load_state_dict(strict=True) succeed
LoadError(ckpt) ==
    IF ckpt.opts.train.model_type \notin KnownModelTypes THEN "AttributeError"
    ELSE IF ~ckpt.weights_match THEN "RuntimeError"
    ELSE "none"

\* the instance built from a checkpoint: set up, weights loaded, eval mode
MakeInstance(ckpt) ==
    [opts        |-> OptionsFromDict(ckpt.opts),
     n_trg_vocab |-> ckpt.n_trg_vocab,
     training    |-> FALSE,
     datasets    |-> {}]

----------------------------------------------------------------------------
(* Post-processing filter, lines 57-65 *)

SelectFilterIgnoresDisable(disable_filters, eval_filters) ==
    IF eval_filters = "" THEN [kind |-> "identity", filters |-> ""]
    ELSE [kind |-> "FilterChain", filters |-> eval_filters]

SelectFilter(disable_filters, eval_filters) ==
    IF disable_filters \/ eval_filters = "" THEN [kind |-> "identity", filters |-> ""]
    ELSE [kind |-> "FilterChain", filters |-> eval_filters]

\* FilterChain(eval_filters)(hs): every hypothesis post-processed, in place
FilterChainApply(eval_filters, hs) ==
    [i \in DOMAIN hs |-> [hs[i] EXCEPT !.post = eval_filters]]

\* self.filter(hs)
ApplyFilter(f, hs) ==
    IF f.kind = "identity" THEN hs ELSE FilterChainApply(f.filters, hs)

----------------------------------------------------------------------------
(* Split resolution, lines 67-80 *)

\* does "key, path = data_source.split(':', 1)" unpack
Unpacks(data_source) == Len(StrSplit1(data_source, ":")) = 2

\* input_dict after the loop of lines 75-78 over the data sources
RECURSIVE InputDict(_)
InputDict(data_sources) ==
    IF data_sources = <<>> THEN EmptyDict
    ELSE LET n    == Len(data_sources)
             kv   == StrSplit1(data_sources[n], ":")
         IN  DictSet(InputDict(SubSeq(data_sources, 1, n - 1)), kv[1], Path(kv[2]))

RegisterNewSet(insts, input_dict) ==
    [insts EXCEPT ![1].opts.data = DictSet(@, "new_set", input_dict)]

ResolveSourceFirst(splits_arg, source, insts) ==
    IF source # <<>> /\ \A i \in DOMAIN StrSplit(source, ",") : Unpacks(StrSplit(source, ",")[i])
    THEN [splits    |-> <<NewSplit>>,
          instances |-> RegisterNewSet(insts, InputDict(StrSplit(source, ","))),
          error     |-> "none"]
    ELSE [splits |-> StrSplit(splits_arg, ","), instances |-> insts, error |-> "none"]

Resolve(splits_arg, source, insts) ==
    IF splits_arg # <<>>
    THEN [splits |-> StrSplit(splits_arg, ","), instances |-> insts, error |-> "none"]
    ELSE IF source # <<>>
    THEN LET data_sources == StrSplit(source, ",")
         IN  IF \E i \in DOMAIN data_sources : ~Unpacks(data_sources[i])
             THEN [splits |-> splits_arg, instances |-> insts, error |-> "ValueError"]
             ELSE [splits    |-> <<NewSplit>>,
                   instances |-> RegisterNewSet(insts, InputDict(data_sources)),
                   error     |-> "none"]
    ELSE [splits |-> splits_arg, instances |-> insts, error |-> "none"]

----------------------------------------------------------------------------
(* Inputs *)

EvalFilterValues == {"", "de-bpe"}

Checkpoints ==
    {[opts |-> [train |-> [model_type |-> "NMT", eval_filters |-> ef],
                data  |-> EmptyDict],
      weights_match |-> TRUE,
      n_trg_vocab   |-> nv] : ef \in EvalFilterValues, nv \in 1..MaxVocab}
    \cup
    {[opts |-> [train |-> [model_type |-> "Unknown", eval_filters |-> ""],
                data  |-> EmptyDict],
      weights_match |-> TRUE,
      n_trg_vocab   |-> 1],
     [opts |-> [train |-> [model_type |-> "NMT", eval_filters |-> ""],
                data  |-> EmptyDict],
      weights_match |-> FALSE,
      n_trg_vocab   |-> 1]}

Str_test == <<"t", "e", "s", "t">>
Str_a_b == <<"a", ",", "b">>
Str_a_b_c == <<"a", ",", "b", ",", "c">>
Str_out_run == <<"o", "u", "t", "/", "r", "u", "n">>
Str_src_foo == <<"s", "r", "c", ":", "f", "o", "o", ".", "t", "x", "t">>
Str_src_in == <<"s", "r", "c", ":", "i", "n", ".", "t", "x", "t">>
Str_src == <<"s", "r", "c">>

\* -s: absent (falsy, here the empty string), or a comma separated list of
\* split names
SplitsArgs == {<<>>, Str_test, Str_a_b, NewSplit}
\* -S: absent, key:path pairs, or a malformed pair
SourceArgs == {<<>>, Str_src_foo, Str_src}

\* beam_size, avoid_double, avoid_unk
DecodeArgs == {<<4, FALSE, FALSE>>, <<1, TRUE, TRUE>>, <<MaxBeam, TRUE, FALSE>>}

\* a raw hypothesis, as beam_search returns it: not yet post-processed
Hyp(text) == [text |-> text, post |-> ""]

\* what beam_search can return: no hypothesis, one, or two in either order
HypLists == {<<>>, <<Hyp("h1")>>, <<Hyp("h1"), Hyp("h2")>>, <<Hyp("h2"), Hyp("h1")>>}

----------------------------------------------------------------------------
(* Construction of the Translator, then its call *)

Init ==
    /\ kwargs \in {[models          |-> ms,
                     splits          |-> sp,
                     source          |-> so,
                     beam_size       |-> d[1],
                     avoid_double    |-> d[2],
                     avoid_unk       |-> d[3],
                     disable_filters |-> df,
                     output          |-> Str_out_run] :
                        ms \in SeqsUpTo(Checkpoints, MaxModels),
                        sp \in SplitsArgs, so \in SourceArgs,
                        d \in DecodeArgs, df \in BOOLEAN}
    /\ splits = kwargs.splits
    /\ instances = <<>>
    /\ filter = [kind |-> "unset", filters |-> ""]
    /\ pc = "load"
    /\ m = 1
    /\ idx = 0
    /\ hyps = <<>>
    /\ call_hyps = <<>>
    /\ up_time = 0
    /\ sent_sec = 0
    /\ error = "none"
    /\ files = EmptyDict
    /\ events = <<>>
    /\ args = <<>>
    /\ result = <<>>

Fail(e) == /\ error' = e
           /\ pc' = "failed"

\* lines 37-51, one checkpoint
LoadModel ==
    /\ pc = "load" /\ m <= Len(kwargs.models)
    /\ LoadError(kwargs.models[m]) = "none"
    /\ instances' = Append(instances, MakeInstance(kwargs.models[m]))
    /\ m' = m + 1
    /\ events' = Append(events, [ev |-> "load", n |-> m, ok |-> TRUE])
    /\ UNCHANGED <<kwargs, splits, filter, pc, idx, hyps, call_hyps, up_time,
                   sent_sec, error, files, args, result>>

LoadModelFailsSkipsCheckpoint ==
    /\ pc = "load" /\ m <= Len(kwargs.models)
    /\ LoadError(kwargs.models[m]) # "none"
    /\ events' = Append(events, [ev |-> "load", n |-> m, ok |-> FALSE])
    /\ m' = m + 1
    /\ UNCHANGED <<kwargs, splits, instances, filter, pc, idx, hyps, call_hyps,
                   up_time, sent_sec, error, files, args, result>>

LoadModelFails ==
    /\ pc = "load" /\ m <= Len(kwargs.models)
    /\ LoadError(kwargs.models[m]) # "none"
    /\ events' = Append(events, [ev |-> "load", n |-> m, ok |-> FALSE])
    /\ Fail(LoadError(kwargs.models[m]))
    /\ UNCHANGED <<kwargs, splits, instances, filter, m, idx, hyps, call_hyps,
                   up_time, sent_sec, files, args, result>>

\* line 54
SanityCheck ==
    /\ pc = "load" /\ m > Len(kwargs.models)
    /\ IF sanity_check(instances) = "ok"
       THEN /\ pc' = "filter_setup"
            /\ events' = Append(events, [ev |-> "sanity_check", n |-> Len(instances), ok |-> TRUE])
            /\ UNCHANGED error
       ELSE /\ Fail(sanity_check(instances))
            /\ events' = Append(events, [ev |-> "sanity_check", n |-> Len(instances), ok |-> FALSE])
    /\ UNCHANGED <<kwargs, splits, instances, filter, m, idx, hyps, call_hyps,
                   up_time, sent_sec, files, args, result>>

\* lines 57-65
SetupFilter ==
    /\ pc = "filter_setup"
    /\ filter' = SelectFilter(kwargs.disable_filters,
                              instances[1].opts.train.eval_filters)
    /\ pc' = "resolve"
    /\ UNCHANGED <<kwargs, splits, instances, m, idx, hyps, call_hyps, up_time,
                   sent_sec, error, files, events, args, result>>

\* lines 68-80
ResolveSplits ==
    /\ pc = "resolve"
    /\ LET r == Resolve(kwargs.splits, kwargs.source, instances)
       IN  /\ splits' = r.splits
           /\ instances' = r.instances
           /\ IF r.error = "none"
              THEN pc' = "constructed" /\ UNCHANGED error
              ELSE Fail(r.error)
    /\ UNCHANGED <<kwargs, filter, m, idx, hyps, call_hyps, up_time, sent_sec,
                   files, events, args, result>>

LoopToStopsEarly(i) == IF i < Len(splits) THEN "load_data" ELSE "done"

\* the for statement of line 146: the next split, or the end of the loop
LoopTo(i) == IF i <= Len(splits) THEN "load_data" ELSE "done"

\* line 146, entering __call__
Call ==
    /\ pc = "constructed"
    /\ idx' = 1
    /\ pc' = LoopTo(1)
    /\ UNCHANGED <<kwargs, splits, instances, filter, m, hyps, call_hyps, up_time,
                   sent_sec, error, files, events, args, result>>

\* lines 105-109
LoadData ==
    /\ pc = "load_data"
    /\ instances' = [instances EXCEPT ![1].datasets = @ \cup {splits[idx]}]
    /\ events' = Append(events, [ev |-> "load_data", n |-> idx, ok |-> TRUE])
    /\ pc' = "beam_search"
    /\ UNCHANGED <<kwargs, splits, filter, m, idx, hyps, call_hyps, up_time,
                   sent_sec, error, files, args, result>>

LoadDataFailsSkipsSplit ==
    /\ pc = "load_data"
    /\ events' = Append(events, [ev |-> "load_data", n |-> idx, ok |-> FALSE])
    /\ idx' = idx + 1
    /\ pc' = LoopTo(idx + 1)
    /\ UNCHANGED <<kwargs, splits, instances, filter, m, hyps, call_hyps, up_time,
                   sent_sec, error, files, args, result>>

LoadDataFails ==
    /\ pc = "load_data"
    /\ events' = Append(events, [ev |-> "load_data", n |-> idx, ok |-> FALSE])
    /\ Fail("load_data error")
    /\ UNCHANGED <<kwargs, splits, instances, filter, m, idx, hyps, call_hyps,
                   up_time, sent_sec, files, args, result>>

\* lines 112-117
BeamSearch ==
    /\ pc = "beam_search"
    /\ \E hs \in HypLists, t \in 0..MaxUpTime :
          /\ hyps' = hs
          /\ up_time' = t
    /\ events' = Append(events, [ev |-> "beam_search", n |-> idx, ok |-> TRUE])
    /\ pc' = "log"
    /\ UNCHANGED <<kwargs, splits, instances, filter, m, idx, call_hyps, sent_sec,
                   error, files, args, result>>

BeamSearchFails ==
    /\ pc = "beam_search"
    /\ events' = Append(events, [ev |-> "beam_search", n |-> idx, ok |-> FALSE])
    /\ Fail("beam_search error")
    /\ UNCHANGED <<kwargs, splits, instances, filter, m, idx, hyps, call_hyps,
                   up_time, sent_sec, files, args, result>>

\* lines 118-119: math.floor(len(hyps) / up_time), up_time in whole seconds;
\* the division raises ZeroDivisionError when the two clock readings are equal
LogThroughput ==
    /\ pc = "log"
    /\ IF up_time = 0
       THEN Fail("ZeroDivisionError") /\ UNCHANGED sent_sec
       ELSE /\ sent_sec' = Len(hyps) \div up_time
            /\ pc' = "filter"
            /\ UNCHANGED error
    /\ UNCHANGED <<kwargs, splits, instances, filter, m, idx, hyps, call_hyps,
                   up_time, files, events, args, result>>

\* line 121 and the assignment of line 148
Filter ==
    /\ pc = "filter"
    /\ call_hyps' = ApplyFilter(filter, hyps)
    /\ events' = Append(events, [ev |-> "filter", n |-> idx, ok |-> TRUE])
    /\ pc' = "dump"
    /\ UNCHANGED <<kwargs, splits, instances, filter, m, idx, hyps, up_time,
                   sent_sec, error, files, args, result>>

\* lines 129-142, then the next iteration of line 146
Dump ==
    /\ pc = "dump"
    /\ files' = DictSet(files,
                        DumpPath(kwargs.output, splits[idx], kwargs.beam_size,
                                 kwargs.avoid_double, kwargs.avoid_unk),
                        DumpLines(call_hyps))
    /\ events' = Append(events, [ev |-> "dump", n |-> idx, ok |-> TRUE])
    /\ idx' = idx + 1
    /\ pc' = LoopTo(idx + 1)
    /\ UNCHANGED <<kwargs, splits, instances, filter, m, hyps, call_hyps, up_time,
                   sent_sec, error, args, result>>

\* line 140: open(output, 'w') raises
DumpFails ==
    /\ pc = "dump"
    /\ events' = Append(events, [ev |-> "dump", n |-> idx, ok |-> FALSE])
    /\ Fail("OSError")
    /\ UNCHANGED <<kwargs, splits, instances, filter, m, idx, hyps, call_hyps,
                   up_time, sent_sec, files, args, result>>

Next ==
    \/ LoadModel
    \/ LoadModelFails
    \/ SanityCheck
    \/ SetupFilter
    \/ ResolveSplits
    \/ Call
    \/ LoadData
    \/ LoadDataFails
    \/ BeamSearch
    \/ BeamSearchFails
    \/ LogThroughput
    \/ Filter
    \/ Dump
    \/ DumpFails

Spec == Init /\ [][Next]_vars

----------------------------------------------------------------------------
(* Direct calls of sanity_check, of dump's path derivation and of the     *)
(* split resolution, on arguments drawn from bounded sets.                *)

\* no Translator is being constructed or called: its state stays as it is
NoRun ==
    /\ kwargs = <<>>
    /\ splits = <<>>
    /\ instances = <<>>
    /\ filter = [kind |-> "unset", filters |-> ""]
    /\ m = 1
    /\ idx = 0
    /\ hyps = <<>>
    /\ call_hyps = <<>>
    /\ up_time = 0
    /\ sent_sec = 0
    /\ error = "none"
    /\ files = EmptyDict
    /\ events = <<>>

Return(value) ==
    /\ pc = "call"
    /\ result' = value
    /\ pc' = "returned"
    /\ UNCHANGED <<kwargs, splits, instances, filter, m, idx, hyps, call_hyps,
                   up_time, sent_sec, error, files, events, args>>

\* instances that loaded: model type known, weights matching
LoadedInstances == {MakeInstance(c) : c \in {k \in Checkpoints : LoadError(k) = "none"}}

InitSanityCheck ==
    /\ NoRun
    /\ pc = "call"
    /\ args \in SeqsUpTo(LoadedInstances, MaxModels + 1)
    /\ result = <<>>

CallSanityCheck == Return(sanity_check(args))

SpecSanityCheck == InitSanityCheck /\ [][CallSanityCheck]_vars

Str_o == <<"o">>
Str_o_a == <<"o", ".", "a">>
Str_b == <<"b">>
Str_a_dot_b == <<"a", ".", "b">>

DumpArgs ==
    [output       : {Str_out_run, Str_o, Str_o_a},
     split        : {NewSplit, Str_test, Str_b, Str_a_dot_b},
     beam_size    : 1..MaxBeam,
     avoid_double : BOOLEAN,
     avoid_unk    : BOOLEAN]

InitDump ==
    /\ NoRun
    /\ pc = "call"
    /\ args \in [a : DumpArgs, b : DumpArgs]
    /\ result = <<>>

DumpPathOf(x) == DumpPath(x.output, x.split, x.beam_size, x.avoid_double, x.avoid_unk)

CallDump == Return([a |-> DumpPathOf(args.a), b |-> DumpPathOf(args.b)])

SpecDump == InitDump /\ [][CallDump]_vars

Str_dup == <<"s", ":", "a", ",", "s", ":", "b">>

ResolveArgs ==
    [splits    : SeqsUpTo({"a", ","}, MaxStrLen) \cup {Str_a_b_c, Str_test, NewSplit},
     source    : SeqsUpTo({"s", ":", ",", "/"}, MaxStrLen)
                     \cup {Str_src_in, Str_src_foo, Str_dup},
     instances : {is \in SeqsUpTo(LoadedInstances, 2) :
                     is # <<>> /\ sanity_check(is) = "ok"}]

InitResolve ==
    /\ NoRun
    /\ pc = "call"
    /\ args \in ResolveArgs
    /\ result = <<>>

CallResolve == Return(Resolve(args.splits, args.source, args.instances))

SpecResolve == InitResolve /\ [][CallResolve]_vars

----------------------------------------------------------------------------
(* Claims *)

AllAgreeOnFilters(insts) ==
    \A i, j \in DOMAIN insts :
        insts[i].opts.train.eval_filters = insts[j].opts.train.eval_filters

AllAgreeOnVocab(insts) ==
    \A i, j \in DOMAIN insts : insts[i].n_trg_vocab = insts[j].n_trg_vocab

DistinctFilters(insts) == {insts[i].opts.train.eval_filters : i \in DOMAIN insts}
DistinctVocabSizes(insts) == {insts[i].n_trg_vocab : i \in DOMAIN insts}

\* C1: sanity_check accepts a list of instances exactly when the set of
\* distinct eval_filters values and the set of distinct target vocabulary
\* sizes both have exactly one member; it rejects every list whose
\* instances differ in eval_filters, and every list whose instances differ
\* in n_trg_vocab.
C1_SanityCheckAcceptsExactlyAgreeingEnsembles ==
    pc = "returned" =>
        /\ (result = "ok") <=> /\ Cardinality(DistinctFilters(args)) = 1
                               /\ Cardinality(DistinctVocabSizes(args)) = 1
        /\ ~AllAgreeOnFilters(args) => result # "ok"
        /\ ~AllAgreeOnVocab(args) => result # "ok"
        /\ (args # <<>> /\ AllAgreeOnFilters(args) /\ AllAgreeOnVocab(args))
              => result = "ok"

C1_Witness ==
    /\ pc = "returned"
    /\ Len(args) = 2
    /\ ~AllAgreeOnFilters(args)
    /\ AllAgreeOnVocab(args)
    /\ result = "AssertionError: eval_filters differ between instances."

DecodeEvents == {"load_data", "beam_search", "filter", "dump"}

ConstructionErrors ==
    {"AttributeError", "RuntimeError", "ValueError",
     "AssertionError: eval_filters differ between instances.",
     "AssertionError: target vocabularies differ."}

\* C2: every load_data, beam_search and dump call is preceded by the
\* successful load of every checkpoint of kwargs.models and by a successful
\* sanity check over the full ensemble; when construction fails (a
\* checkpoint does not load, or the sanity check rejects the ensemble) no
\* dataset is loaded, beam_search is not called and no file is written.
C2_NoDecodingWithoutConstruction ==
    /\ \A j \in DOMAIN events :
          events[j].ev \in DecodeEvents =>
            /\ \A n \in DOMAIN kwargs.models :
                  \E k \in 1..(j - 1) : events[k] = [ev |-> "load", n |-> n, ok |-> TRUE]
            /\ \E k \in 1..(j - 1) :
                  events[k] = [ev |-> "sanity_check", n |-> Len(kwargs.models), ok |-> TRUE]
            /\ \A n \in DOMAIN kwargs.models : LoadError(kwargs.models[n]) = "none"
            /\ Len(instances) = Len(kwargs.models)
            /\ AllAgreeOnFilters(instances) /\ AllAgreeOnVocab(instances)
    /\ (\/ error \in ConstructionErrors
        \/ \E j \in DOMAIN events : events[j].ev \in {"load", "sanity_check"} /\ ~events[j].ok)
          => /\ \A j \in DOMAIN events : events[j].ev \notin DecodeEvents
             /\ DOMAIN files = {}
             /\ pc \in {"load", "failed"}

C2_Witness ==
    /\ pc = "failed"
    /\ Len(kwargs.models) = 2
    /\ Len(instances) = 2
    /\ instances[1].n_trg_vocab # instances[2].n_trg_vocab
    /\ error = "AssertionError: target vocabularies differ."
    /\ DOMAIN files = {}

\* the decimal digits d denote the number n, without leading zeros
RECURSIVE DecimalValue(_)
DecimalValue(d) ==
    IF d = <<>> THEN 0
    ELSE 10 * DecimalValue(SubSeq(d, 1, Len(d) - 1))
         + (CHOOSE v \in 0..9 : DigitChars[v + 1] = d[Len(d)])

Denotes(d, n) ==
    /\ d # <<>>
    /\ Len(d) > 1 => d[1] # "0"
    /\ DecimalValue(d) = n

ClaimedPath(x, path) ==
    \E d \in SeqsUpTo(Range(DigitChars), 2) :
        /\ Denotes(d, x.beam_size)
        /\ path = x.output
                    \o (IF x.split = <<"n", "e", "w">> THEN <<>> ELSE <<".">> \o x.split)
                    \o <<".", "b", "e", "a", "m">> \o d
                    \o (IF x.avoid_double THEN <<".", "n", "o", "d", "b", "l">> ELSE <<>>)
                    \o (IF x.avoid_unk THEN <<".", "n", "o", "u", "n", "k">> ELSE <<>>)

Scenario1 ==
    [output |-> Str_out_run, split |-> Str_test, beam_size |-> 4,
     avoid_double |-> FALSE, avoid_unk |-> FALSE]

Scenario2 ==
    [output |-> Str_out_run, split |-> NewSplit, beam_size |-> 1,
     avoid_double |-> TRUE, avoid_unk |-> TRUE]

Path_out_run_test_beam4 ==
    <<"o", "u", "t", "/", "r", "u", "n", ".", "t", "e", "s", "t",
      ".", "b", "e", "a", "m", "4">>

Path_out_run_beam1_nodbl_nounk ==
    <<"o", "u", "t", "/", "r", "u", "n", ".", "b", "e", "a", "m", "1",
      ".", "n", "o", "d", "b", "l", ".", "n", "o", "u", "n", "k">>

\* C3: dump writes to base + suffix when the split is "new" and to
\* base + "." + split + suffix otherwise, the suffix being ".beam" and the
\* beam width in decimal, then ".nodbl" if avoid_double, then ".nounk" if
\* avoid_unk; out/run, test, 4, no flags gives out/run.test.beam4, and
\* out/run, new, 1, both flags gives out/run.beam1.nodbl.nounk.
C3_DumpPathIsBaseSplitSuffix ==
    pc = "returned" =>
        /\ ClaimedPath(args.a, result.a)
        /\ args.a = Scenario1 => result.a = Path_out_run_test_beam4
        /\ args.a = Scenario2 => result.a = Path_out_run_beam1_nodbl_nounk

C3_Witness ==
    /\ pc = "returned"
    /\ args.a = Scenario2
    /\ args.b = Scenario1
    /\ result.a = Path_out_run_beam1_nodbl_nounk
    /\ result.b = Path_out_run_test_beam4

DumpFields == {"output", "split", "beam_size", "avoid_double", "avoid_unk"}

DifferingFields(x, y) == {f \in DumpFields : x[f] # y[f]}

\* C4: the path dump derives is a function of (base path, split name, beam
\* width, avoid_double, avoid_unk): equal inputs give equal paths, and two
\* inputs that differ in exactly one of the fields give different paths.
C4_DumpPathChangesWithAnySingleField ==
    pc = "returned" =>
        /\ args.a = args.b => result.a = result.b
        /\ Cardinality(DifferingFields(args.a, args.b)) = 1 => result.a # result.b

C4_Witness ==
    /\ pc = "returned"
    /\ DifferingFields(args.a, args.b) = {"avoid_unk"}
    /\ args.a.split = NewSplit
    /\ result.a # result.b

\* the pieces joined by the separator c
RECURSIVE Join(_, _)
Join(pieces, c) ==
    IF pieces = <<>> THEN <<>>
    ELSE IF Len(pieces) = 1 THEN pieces[1]
    ELSE pieces[1] \o <<c>> \o Join(Tail(pieces), c)

\* the maximal comma-free stretches <<i, j>> of s: its comma separated items
Items(s) ==
    {ij \in (1..(Len(s) + 1)) \X (0..Len(s)) :
        /\ ij[1] <= ij[2] + 1
        /\ ij[1] = 1 \/ s[ij[1] - 1] = ","
        /\ ij[2] = Len(s) \/ s[ij[2] + 1] = ","
        /\ \A k \in ij[1]..ij[2] : s[k] # ","}

\* the item <<i, j>> of s is key:path with the colon at position c
ColonAt(s, ij, c) ==
    /\ c \in ij[1]..ij[2]
    /\ s[c] = ":"
    /\ \A k \in ij[1]..(c - 1) : s[k] # ":"

\* the <<key, path>> pairs of the items of s that hold a colon
KeyPathPairs(s) ==
    {<<SubSeq(s, x[1][1], x[2] - 1), SubSeq(s, x[2] + 1, x[1][2])>> :
        x \in {y \in Items(s) \X (1..Len(s)) : ColonAt(s, y[1], y[2])}}

IsSourceSpec(s) ==
    /\ s # <<>>
    /\ \A ij \in Items(s) : \E c \in 1..Len(s) : ColonAt(s, ij, c)

NewSetOf(insts) == insts[1].opts.data["new_set"]

\* C5: a supplied split list resolves to exactly its comma separated names,
\* in their order ("a,b,c" to a, b, c); with no split list, a source
\* specification of key:path pairs resolves to the single split "new" and
\* registers the mapping from each key to Path(path) under "new_set" in the
\* data options of the first instance ("src:in.txt" registers src -> in.txt).
C5_SplitsResolveToNamesOrNewSet ==
    pc = "returned" =>
        /\ args.splits # <<>> =>
              /\ result.error = "none"
              /\ Join(result.splits, ",") = args.splits
              /\ \A i \in DOMAIN result.splits : "," \notin Range(result.splits[i])
        /\ args.splits = Str_a_b_c => result.splits = << <<"a">>, <<"b">>, <<"c">> >>
        /\ (args.splits = <<>> /\ IsSourceSpec(args.source)) =>
              /\ result.error = "none"
              /\ result.splits = << <<"n", "e", "w">> >>
              /\ "new_set" \in DOMAIN result.instances[1].opts.data
              /\ DOMAIN NewSetOf(result.instances)
                    = {kp[1] : kp \in KeyPathPairs(args.source)}
              /\ \A k \in DOMAIN NewSetOf(result.instances) :
                    \E kp \in KeyPathPairs(args.source) :
                        kp[1] = k /\ NewSetOf(result.instances)[k] = Path(kp[2])
        /\ (args.splits = <<>> /\ args.source = Str_src_in) =>
              NewSetOf(result.instances)
                = [k \in {<<"s", "r", "c">>} |->
                     [root |-> <<>>, parts |-> << <<"i", "n", ".", "t", "x", "t">> >>]]

C5_Witness ==
    /\ pc = "returned"
    /\ args.splits = <<>>
    /\ args.source = Str_src_in
    /\ Len(args.instances) = 2
    /\ result.splits = <<NewSplit>>
    /\ DOMAIN NewSetOf(result.instances) = {Str_src}

PathOfSplit(i) ==
    DumpPath(kwargs.output, splits[i], kwargs.beam_size, kwargs.avoid_double,
             kwargs.avoid_unk)

\* C6: when load_data or beam_search fails on a split, the run ends there:
\* the failed call is the last call ever made, no dump is called for that
\* split or a later one, and the files that exist are exactly those dumped
\* for the earlier splits.
C6_DecodingFailureAbortsRun ==
    \A j \in DOMAIN events :
        (events[j].ev \in {"load_data", "beam_search"} /\ ~events[j].ok) =>
            /\ j = Len(events)
            /\ pc = "failed"
            /\ error \in {"load_data error", "beam_search error"}
            /\ \A k \in DOMAIN events :
                  events[k].ev = "dump" => events[k].n < events[j].n /\ events[k].ok
            /\ \A k \in DOMAIN events :
                  events[k].ev \in DecodeEvents => events[k].n <= events[j].n
            /\ Cardinality({k \in 1..(j - 1) : events[k].ev = events[j].ev
                                                 /\ events[k].n = events[j].n}) = 0
            /\ DOMAIN files = {PathOfSplit(i) : i \in 1..(events[j].n - 1)}

C6_Witness ==
    /\ pc = "failed"
    /\ error = "beam_search error"
    /\ Len(splits) = 2
    /\ idx = 2
    /\ Cardinality(DOMAIN files) = 1

\* C7: the filter selected at construction is the identity when
\* disable_filters is set or the ensemble declares no eval_filters, and the
\* FilterChain of the declared eval_filters otherwise; with the identity,
\* what translate returns is the list beam_search returned, whatever its
\* length.
C7_FilterIsIdentityWhenDisabledOrUndeclared ==
    filter.kind # "unset" =>
        LET declared == kwargs.models[1].opts.train.eval_filters
            identity == kwargs.disable_filters \/ declared = ""
        IN  /\ identity => filter.kind = "identity"
            /\ ~identity => filter = [kind |-> "FilterChain", filters |-> declared]
            /\ (identity /\ pc = "dump") =>
                  /\ Len(call_hyps) = Len(hyps)
                  /\ \A i \in DOMAIN hyps : call_hyps[i] = hyps[i]

C7_Witness ==
    /\ pc = "dump"
    /\ kwargs.disable_filters
    /\ kwargs.models[1].opts.train.eval_filters = "de-bpe"
    /\ Len(hyps) = 2
    /\ hyps[1] # hyps[2]
    /\ call_hyps = hyps

DecodeOrder == <<"load_data", "beam_search", "filter", "dump">>

\* the calls made by __call__, in the order made
DecodeCalls == SelectSeq(events, LAMBDA e : e.ev \in DecodeEvents)

\* C8: the splits are processed one after the other in list order: the
\* calls made are load_data, beam_search, filter, dump of split 1, then of
\* split 2, and so on; the file of a split is written before load_data of
\* the next one; a run that ends without failure has dumped once per entry
\* of the split list.
C8_SplitsProcessedSequentially ==
    /\ \A k \in DOMAIN DecodeCalls :
          /\ DecodeCalls[k].ev = DecodeOrder[((k - 1) % 4) + 1]
          /\ DecodeCalls[k].n = ((k - 1) \div 4) + 1
          /\ DecodeCalls[k].n \in DOMAIN splits
          /\ DecodeCalls[k].ev = "load_data" =>
                \A i \in 1..(DecodeCalls[k].n - 1) : PathOfSplit(i) \in DOMAIN files
    /\ pc = "done" =>
          /\ error = "none"
          /\ Len(DecodeCalls) = 4 * Len(splits)
          /\ \A i \in DOMAIN splits :
                Cardinality({k \in DOMAIN events :
                               events[k] = [ev |-> "dump", n |-> i, ok |-> TRUE]}) = 1
          /\ DOMAIN files = {PathOfSplit(i) : i \in DOMAIN splits}

C8_Witness ==
    /\ pc = "done"
    /\ Len(splits) = 2
    /\ Len(DecodeCalls) = 8
    /\ Cardinality(DOMAIN files) = 2

\* C9: translate does not fail when the elapsed time of the search is zero,
\* and goes on to filter and return the hypotheses; for a positive elapsed
\* time the value reported is floor(len(hyps) / up_time).
C9_ZeroElapsedTimeDoesNotFail ==
    /\ error # "ZeroDivisionError"
    /\ (pc \in {"filter", "dump"} /\ up_time > 0) =>
          /\ sent_sec * up_time <= Len(hyps)
          /\ Len(hyps) < (sent_sec + 1) * up_time

ConstructedStates ==
    {"constructed", "load_data", "beam_search", "log", "filter", "dump", "done"}

OriginalOpts(i) == [train |-> kwargs.models[i].opts.train, data |-> kwargs.models[i].opts.data]

\* a step of __call__, translate or dump leaves every instance's options alone
OptsKeptAfterConstruction ==
    pc \in ConstructedStates =>
        /\ Len(instances') = Len(instances)
        /\ \A i \in DOMAIN instances : instances'[i].opts = instances[i].opts

\* C10: the data options of the first instance gain the "new_set" entry
\* during construction exactly when no split list and a source
\* specification are supplied; with a split list, also next to a source
\* specification, no options are modified; the options of the other
\* instances are never modified, and no options change during translate,
\* dump and __call__.
C10_OptionsMutatedOnlyInSourceMode ==
    /\ [](\A i \in DOMAIN instances :
            /\ instances[i].opts.train = OriginalOpts(i).train
            /\ i > 1 => instances[i].opts = OriginalOpts(i)
            /\ \A k \in DOMAIN OriginalOpts(i).data :
                  /\ k \in DOMAIN instances[i].opts.data
                  /\ instances[i].opts.data[k] = OriginalOpts(i).data[k]
            /\ DOMAIN instances[i].opts.data \subseteq
                  DOMAIN OriginalOpts(i).data \cup {"new_set"})
    /\ [](pc \in ConstructedStates =>
            /\ ("new_set" \in DOMAIN instances[1].opts.data)
                  <=> (kwargs.splits = <<>> /\ kwargs.source # <<>>)
            /\ kwargs.splits # <<>> =>
                  \A i \in DOMAIN instances : instances[i].opts = OriginalOpts(i))
    /\ [](pc \in {"load", "filter_setup", "resolve"} =>
            \A i \in DOMAIN instances : instances[i].opts = OriginalOpts(i))
    /\ [][OptsKeptAfterConstruction]_vars

C10_Witness ==
    /\ pc = "done"
    /\ Len(instances) = 2
    /\ kwargs.splits = <<>>
    /\ "new_set" \in DOMAIN instances[1].opts.data
    /\ instances[2].opts = OriginalOpts(2)
    /\ DOMAIN files # {}

====
